---- MODULE Spec2Model ----
(***************************************************************************)
(* The token ledger (Contract/src/token/Token.sol), the deployment         *)
(* registry (Contract/src/token/TokenDeployer.sol) and the authority       *)
(* resolution library (Contract/src/token/types/MintAuthority.sol) as one  *)
(* state machine.  Every external function is one atomic action: a call    *)
(* either commits all its writes and its events, or reverts and leaves the *)
(* contracts' storage as it was.  The receipt of the last call (the        *)
(* function called, the contract called, the revert reason if any, the     *)
(* value returned, the events logged) is kept in the variable last.        *)
(***************************************************************************)
EXTENDS Integers, Sequences, FiniteSets, TLC

\* ---------------------------------------------------------------- bounds
\* Width in bits of the model's unsigned integers (uint256 in the source).
W == 2
\* Number of create calls the registry specification follows.
MaxTokens == 2

\* ------------------------------------------------------------- constants
\* type(uint256).max, at the model's width.
MaxUint == 2^W - 1
\* Unchecked arithmetic wraps modulo 2^W.
Wrap(x) == x % (2^W)

\* address(0): the null identity, and the "anyone may mint" sentinel.
NULL == 0
\* The externally owned accounts of the model.
Users == {1, 2}
Addr == {NULL} \cup Users

\* MintAuthority.Type
OWNER == 0
ANYONE == 1
SPECIFIC == 2
\* decimals above this are refused by the registry
MaxDecimals == 18

\* The err of a call that did not revert.
OK == "ok"
\* Panic(0x11): checked arithmetic overflowed.
PanicOverflow == "Panic(0x11)"
\* Panic(0x21): an integer outside the enum's range was converted to it.
PanicEnum == "Panic(0x21)"

\* ------------------------------------------------------------ input sets
Names == {"", "Arc"}
Symbols == {"", "ARC"}
Decimals == {MaxDecimals, MaxDecimals + 1}
InitialSupplies == {0, 1, MaxUint}
\* the initial supplies of the registry specification, which follows several
\* create calls and no ledger operation
RegistrySupplies == {0, MaxUint}
MaxSupplies == {0, 2}
Amounts == {0, 1, MaxUint}
AuthorityTypes == {OWNER, ANYONE, SPECIFIC}
\* deployTokenSimple takes the policy as a uint8
AuthorityCodes == AuthorityTypes \cup {SPECIFIC + 1}
SpecificAuthorities == {NULL, 2}

\* TokenDeployer.TokenParams, with the initial supply and the policy drawn
\* from the given sets
TokenParams(supplies, policies) ==
    [name : Names, symbol : Symbols, decimals : Decimals,
     initialSupply : supplies, maxSupply : MaxSupplies,
     mintAuthorityType : policies,
     specificMintAuthority : SpecificAuthorities]

VARIABLES
    deployedTokens,   \* TokenDeployer.deployedTokens: deployer -> tokens[]
    allTokens,        \* TokenDeployer.allTokens
    nonce,            \* the registry's creation nonce: names the next contract
    tokens,           \* the storage of every deployed Token, by address
    last,             \* the receipt of the last call
    created,          \* history: the successful create calls of each caller
    replaced,         \* history: <<the authority a successful
                      \* updateMintAuthority has just replaced>>, else <<>>
    window            \* history, kept by the approval specification: what
                      \* spender 2 took from owner 1 since 1's latest approve

vars == <<deployedTokens, allTokens, nonce, tokens, last, created, replaced, window>>

\* ----------------------------------------------------------------- events
EvTransfer(from, to, value) ==
    [event |-> "Transfer", from |-> from, to |-> to, value |-> value]
EvApproval(owner, spender, value) ==
    [event |-> "Approval", owner |-> owner, spender |-> spender, value |-> value]
EvMint(to, amount) == [event |-> "Mint", to |-> to, amount |-> amount]
EvMintAuthorityUpdated(newAuthority) ==
    [event |-> "MintAuthorityUpdated", newAuthority |-> newAuthority]
\* The TokenDeployed event with the token and the deployer exchanged.
MutEvTokenDeployedSwapped(token, deployer, name, symbol) ==
    [event |-> "TokenDeployed", token |-> deployer, deployer |-> token,
     name |-> name, symbol |-> symbol]

EvTokenDeployed(token, deployer, name, symbol) ==
    [event |-> "TokenDeployed", token |-> token, deployer |-> deployer,
     name |-> name, symbol |-> symbol]

\* A failed require / revert: nothing is written, nothing is logged.
Revert(msg) == [err |-> msg, logs |-> <<>>]

\* ------------------------------------------------------------------ Token
\* The storage a constructor variant leaves with credited_ on the recipient's
\* balance, and the events it emits.
Constructed(name_, symbol_, decimals_, initialSupply_, maxSupply_, mintAuthority_, initialRecipient_, credited_) ==
    [err |-> OK,
     tok |-> [name |-> name_, symbol |-> symbol_, decimals |-> decimals_,
              maxSupply |-> maxSupply_, mintAuthority |-> mintAuthority_,
              totalSupply |-> IF initialSupply_ > 0 THEN initialSupply_ ELSE 0,
              balances |-> [a \in Addr |->
                  IF initialSupply_ > 0 /\ a = initialRecipient_
                  THEN credited_ ELSE 0],
              allowances |-> [o \in Addr |-> [s \in Addr |-> 0]]],
     logs |-> IF initialSupply_ > 0
              THEN <<EvTransfer(NULL, initialRecipient_, initialSupply_),
                     EvMint(initialRecipient_, initialSupply_)>>
              ELSE <<>>]

\* The constructor checking the cap before the recipient.
MutTokenConstructorCapFirst(name_, symbol_, decimals_, initialSupply_, maxSupply_, mintAuthority_, initialRecipient_) ==
    IF name_ = "" THEN Revert("Token: name required")
    ELSE IF symbol_ = "" THEN Revert("Token: symbol required")
    ELSE IF maxSupply_ > 0 /\ ~(initialSupply_ <= maxSupply_)
    THEN Revert("Token: initial supply exceeds max")
    ELSE IF initialRecipient_ = NULL THEN Revert("Token: invalid recipient")
    ELSE Constructed(name_, symbol_, decimals_, initialSupply_, maxSupply_,
                     mintAuthority_, initialRecipient_, initialSupply_)

\* The constructor setting the supply without crediting the recipient.
MutTokenConstructorNoCredit(name_, symbol_, decimals_, initialSupply_, maxSupply_, mintAuthority_, initialRecipient_) ==
    IF name_ = "" THEN Revert("Token: name required")
    ELSE IF symbol_ = "" THEN Revert("Token: symbol required")
    ELSE IF initialRecipient_ = NULL THEN Revert("Token: invalid recipient")
    ELSE IF maxSupply_ > 0 /\ ~(initialSupply_ <= maxSupply_)
    THEN Revert("Token: initial supply exceeds max")
    ELSE Constructed(name_, symbol_, decimals_, initialSupply_, maxSupply_,
                     mintAuthority_, initialRecipient_, 0)

\* The constructor emitting the Mint event before the Transfer event.
MutTokenConstructorMintFirst(name_, symbol_, decimals_, initialSupply_, maxSupply_, mintAuthority_, initialRecipient_) ==
    IF name_ = "" THEN Revert("Token: name required")
    ELSE IF symbol_ = "" THEN Revert("Token: symbol required")
    ELSE IF initialRecipient_ = NULL THEN Revert("Token: invalid recipient")
    ELSE IF maxSupply_ > 0 /\ ~(initialSupply_ <= maxSupply_)
    THEN Revert("Token: initial supply exceeds max")
    ELSE [err |-> OK,
          tok |-> Constructed(name_, symbol_, decimals_, initialSupply_, maxSupply_,
                              mintAuthority_, initialRecipient_, initialSupply_).tok,
          logs |-> IF initialSupply_ > 0
                   THEN <<EvMint(initialRecipient_, initialSupply_),
                          EvTransfer(NULL, initialRecipient_, initialSupply_)>>
                   ELSE <<>>]

\* Token.constructor
TokenConstructor(name_, symbol_, decimals_, initialSupply_, maxSupply_, mintAuthority_, initialRecipient_) ==
    IF name_ = "" THEN Revert("Token: name required")
    ELSE IF symbol_ = "" THEN Revert("Token: symbol required")
    ELSE IF initialRecipient_ = NULL THEN Revert("Token: invalid recipient")
    ELSE IF maxSupply_ > 0 /\ ~(initialSupply_ <= maxSupply_)
    THEN Revert("Token: initial supply exceeds max")
    ELSE [err |-> OK,
          tok |-> [name |-> name_, symbol |-> symbol_, decimals |-> decimals_,
                   maxSupply |-> maxSupply_, mintAuthority |-> mintAuthority_,
                   totalSupply |-> IF initialSupply_ > 0 THEN initialSupply_ ELSE 0,
                   balances |-> [a \in Addr |->
                       IF initialSupply_ > 0 /\ a = initialRecipient_
                       THEN initialSupply_ ELSE 0],
                   allowances |-> [o \in Addr |-> [s \in Addr |-> 0]]],
          logs |-> IF initialSupply_ > 0
                   THEN <<EvTransfer(NULL, initialRecipient_, initialSupply_),
                          EvMint(initialRecipient_, initialSupply_)>>
                   ELSE <<>>]

\* Token.allowance
allowance(tok, owner, spender) == tok.allowances[owner][spender]
\* Token.balanceOf
balanceOf(tok, account) == tok.balances[account]

\* _transfer crediting the recipient without debiting the sender.
MutTransferNoDebit(tok, from, to, amount) ==
    IF from = NULL THEN Revert("Token: transfer from zero address")
    ELSE IF to = NULL THEN Revert("Token: transfer to zero address")
    ELSE IF ~(tok.balances[from] >= amount) THEN Revert("Token: insufficient balance")
    ELSE [err |-> OK,
          tok |-> [tok EXCEPT !.balances[to] = Wrap(@ + amount)],
          logs |-> <<EvTransfer(from, to, amount)>>]

\* _transfer refusing a transfer of the whole balance (> for >=).
MutTransferStrict(tok, from, to, amount) ==
    IF from = NULL THEN Revert("Token: transfer from zero address")
    ELSE IF to = NULL THEN Revert("Token: transfer to zero address")
    ELSE LET fromBalance == tok.balances[from] IN
         IF ~(fromBalance > amount) THEN Revert("Token: insufficient balance")
         ELSE LET debited == [tok.balances EXCEPT ![from] = Wrap(fromBalance - amount)]
                  credited == [debited EXCEPT ![to] = Wrap(debited[to] + amount)]
              IN [err |-> OK,
                  tok |-> [tok EXCEPT !.balances = credited],
                  logs |-> <<EvTransfer(from, to, amount)>>]

\* Token._transfer
_transfer(tok, from, to, amount) ==
    IF from = NULL THEN Revert("Token: transfer from zero address")
    ELSE IF to = NULL THEN Revert("Token: transfer to zero address")
    ELSE LET fromBalance == tok.balances[from] IN
         IF ~(fromBalance >= amount) THEN Revert("Token: insufficient balance")
         ELSE LET debited == [tok.balances EXCEPT ![from] = Wrap(fromBalance - amount)]
                  credited == [debited EXCEPT ![to] = Wrap(debited[to] + amount)]
              IN [err |-> OK,
                  tok |-> [tok EXCEPT !.balances = credited],
                  logs |-> <<EvTransfer(from, to, amount)>>]

\* _approve adding the amount to the allowance already granted.
MutApproveAdditive(tok, owner, spender, amount) ==
    IF owner = NULL THEN Revert("Token: approve from zero address")
    ELSE IF spender = NULL THEN Revert("Token: approve to zero address")
    ELSE [err |-> OK,
          tok |-> [tok EXCEPT !.allowances[owner][spender] = Wrap(@ + amount)],
          logs |-> <<EvApproval(owner, spender, amount)>>]

\* _approve writing the allowance of the mirrored pair.
MutApproveMirrored(tok, owner, spender, amount) ==
    IF owner = NULL THEN Revert("Token: approve from zero address")
    ELSE IF spender = NULL THEN Revert("Token: approve to zero address")
    ELSE [err |-> OK,
          tok |-> [tok EXCEPT !.allowances[spender][owner] = amount],
          logs |-> <<EvApproval(owner, spender, amount)>>]

\* Token._approve
_approve(tok, owner, spender, amount) ==
    IF owner = NULL THEN Revert("Token: approve from zero address")
    ELSE IF spender = NULL THEN Revert("Token: approve to zero address")
    ELSE [err |-> OK,
          tok |-> [tok EXCEPT !.allowances[owner][spender] = amount],
          logs |-> <<EvApproval(owner, spender, amount)>>]

\* _spendAllowance without the require: the unchecked subtraction wraps.
MutSpendAllowanceNoRequire(tok, owner, spender, amount) ==
    LET currentAllowance == allowance(tok, owner, spender) IN
    IF currentAllowance # MaxUint
    THEN _approve(tok, owner, spender, Wrap(currentAllowance - amount))
    ELSE [err |-> OK, tok |-> tok, logs |-> <<>>]

\* _spendAllowance checking the allowance without decrementing it.
MutSpendAllowanceNoDecrement(tok, owner, spender, amount) ==
    LET currentAllowance == allowance(tok, owner, spender) IN
    IF currentAllowance # MaxUint /\ ~(currentAllowance >= amount)
    THEN Revert("Token: insufficient allowance")
    ELSE [err |-> OK, tok |-> tok, logs |-> <<>>]

\* _spendAllowance without the infinite-approval sentinel: always decrements.
MutSpendAllowanceAlways(tok, owner, spender, amount) ==
    LET currentAllowance == allowance(tok, owner, spender) IN
    IF ~(currentAllowance >= amount)
    THEN Revert("Token: insufficient allowance")
    ELSE _approve(tok, owner, spender, Wrap(currentAllowance - amount))

\* Token._spendAllowance
_spendAllowance(tok, owner, spender, amount) ==
    LET currentAllowance == allowance(tok, owner, spender) IN
    IF currentAllowance # MaxUint
    THEN IF ~(currentAllowance >= amount)
         THEN Revert("Token: insufficient allowance")
         ELSE _approve(tok, owner, spender, Wrap(currentAllowance - amount))
    ELSE [err |-> OK, tok |-> tok, logs |-> <<>>]

\* Token.transfer
transfer(tok, sender, to, amount) == _transfer(tok, sender, to, amount)

\* Token.approve
approve(tok, sender, spender, amount) == _approve(tok, sender, spender, amount)

\* transferFrom moving the tokens before it spends the allowance.
MutTransferFromTransferFirst(tok, sender, from, to, amount) ==
    LET moved == _transfer(tok, from, to, amount) IN
    IF moved.err # OK THEN Revert(moved.err)
    ELSE LET spent == _spendAllowance(moved.tok, from, sender, amount) IN
         IF spent.err # OK THEN Revert(spent.err)
         ELSE [err |-> OK, tok |-> spent.tok, logs |-> moved.logs \o spent.logs]

\* transferFrom reporting success when the transfer fails after the allowance
\* was spent.
MutTransferFromSwallows(tok, sender, from, to, amount) ==
    LET spent == _spendAllowance(tok, from, sender, amount) IN
    IF spent.err # OK THEN Revert(spent.err)
    ELSE LET moved == _transfer(spent.tok, from, to, amount) IN
         IF moved.err # OK THEN [err |-> OK, tok |-> spent.tok, logs |-> spent.logs]
         ELSE [err |-> OK, tok |-> moved.tok, logs |-> spent.logs \o moved.logs]

\* Token.transferFrom
transferFrom(tok, sender, from, to, amount) ==
    LET spent == _spendAllowance(tok, from, sender, amount) IN
    IF spent.err # OK THEN Revert(spent.err)
    ELSE LET moved == _transfer(spent.tok, from, to, amount) IN
         IF moved.err # OK THEN Revert(moved.err)
         ELSE [err |-> OK, tok |-> moved.tok, logs |-> spent.logs \o moved.logs]

\* mint with unchecked additions: the supply and the balance wrap.
MutMintUnchecked(tok, sender, to, amount) ==
    IF ~(tok.mintAuthority = NULL \/ tok.mintAuthority = sender)
    THEN Revert("Token: not authorized to mint")
    ELSE IF to = NULL THEN Revert("Token: cannot mint to zero address")
    ELSE IF ~(amount > 0) THEN Revert("Token: amount must be greater than zero")
    ELSE IF tok.maxSupply > 0 /\ ~(Wrap(tok.totalSupply + amount) <= tok.maxSupply)
    THEN Revert("Token: exceeds max supply")
    ELSE [err |-> OK,
          tok |-> [tok EXCEPT !.totalSupply = Wrap(tok.totalSupply + amount),
                              !.balances[to] = Wrap(tok.balances[to] + amount)],
          logs |-> <<EvTransfer(NULL, to, amount), EvMint(to, amount)>>]

\* mint without the amount check.
MutMintZeroAmount(tok, sender, to, amount) ==
    IF ~(tok.mintAuthority = NULL \/ tok.mintAuthority = sender)
    THEN Revert("Token: not authorized to mint")
    ELSE IF to = NULL THEN Revert("Token: cannot mint to zero address")
    ELSE IF tok.maxSupply > 0 /\ tok.totalSupply + amount > MaxUint
    THEN Revert(PanicOverflow)
    ELSE IF tok.maxSupply > 0 /\ ~(tok.totalSupply + amount <= tok.maxSupply)
    THEN Revert("Token: exceeds max supply")
    ELSE IF tok.totalSupply + amount > MaxUint THEN Revert(PanicOverflow)
    ELSE [err |-> OK,
          tok |-> [tok EXCEPT !.totalSupply = tok.totalSupply + amount,
                              !.balances[to] = tok.balances[to] + amount],
          logs |-> <<EvTransfer(NULL, to, amount), EvMint(to, amount)>>]

\* mint open to every caller.
MutMintAnyone(tok, sender, to, amount) ==
    IF to = NULL THEN Revert("Token: cannot mint to zero address")
    ELSE IF ~(amount > 0) THEN Revert("Token: amount must be greater than zero")
    ELSE IF tok.maxSupply > 0 /\ tok.totalSupply + amount > MaxUint
    THEN Revert(PanicOverflow)
    ELSE IF tok.maxSupply > 0 /\ ~(tok.totalSupply + amount <= tok.maxSupply)
    THEN Revert("Token: exceeds max supply")
    ELSE IF tok.totalSupply + amount > MaxUint THEN Revert(PanicOverflow)
    ELSE [err |-> OK,
          tok |-> [tok EXCEPT !.totalSupply = tok.totalSupply + amount,
                              !.balances[to] = tok.balances[to] + amount],
          logs |-> <<EvTransfer(NULL, to, amount), EvMint(to, amount)>>]

\* mint checking the recipient before the authorization.
MutMintRecipientFirst(tok, sender, to, amount) ==
    IF to = NULL THEN Revert("Token: cannot mint to zero address")
    ELSE IF ~(tok.mintAuthority = NULL \/ tok.mintAuthority = sender)
    THEN Revert("Token: not authorized to mint")
    ELSE IF ~(amount > 0) THEN Revert("Token: amount must be greater than zero")
    ELSE IF tok.maxSupply > 0 /\ tok.totalSupply + amount > MaxUint
    THEN Revert(PanicOverflow)
    ELSE IF tok.maxSupply > 0 /\ ~(tok.totalSupply + amount <= tok.maxSupply)
    THEN Revert("Token: exceeds max supply")
    ELSE IF tok.totalSupply + amount > MaxUint THEN Revert(PanicOverflow)
    ELSE [err |-> OK,
          tok |-> [tok EXCEPT !.totalSupply = tok.totalSupply + amount,
                              !.balances[to] = tok.balances[to] + amount],
          logs |-> <<EvTransfer(NULL, to, amount), EvMint(to, amount)>>]

\* mint crediting the caller instead of the recipient.
MutMintCreditsSender(tok, sender, to, amount) ==
    IF ~(tok.mintAuthority = NULL \/ tok.mintAuthority = sender)
    THEN Revert("Token: not authorized to mint")
    ELSE IF to = NULL THEN Revert("Token: cannot mint to zero address")
    ELSE IF ~(amount > 0) THEN Revert("Token: amount must be greater than zero")
    ELSE IF tok.maxSupply > 0 /\ tok.totalSupply + amount > MaxUint
    THEN Revert(PanicOverflow)
    ELSE IF tok.maxSupply > 0 /\ ~(tok.totalSupply + amount <= tok.maxSupply)
    THEN Revert("Token: exceeds max supply")
    ELSE IF tok.totalSupply + amount > MaxUint THEN Revert(PanicOverflow)
    ELSE [err |-> OK,
          tok |-> [tok EXCEPT !.totalSupply = tok.totalSupply + amount,
                              !.balances[sender] = tok.balances[sender] + amount],
          logs |-> <<EvTransfer(NULL, to, amount), EvMint(to, amount)>>]

\* mint without the supply cap.
MutMintNoCap(tok, sender, to, amount) ==
    IF ~(tok.mintAuthority = NULL \/ tok.mintAuthority = sender)
    THEN Revert("Token: not authorized to mint")
    ELSE IF to = NULL THEN Revert("Token: cannot mint to zero address")
    ELSE IF ~(amount > 0) THEN Revert("Token: amount must be greater than zero")
    ELSE IF tok.totalSupply + amount > MaxUint THEN Revert(PanicOverflow)
    ELSE [err |-> OK,
          tok |-> [tok EXCEPT !.totalSupply = tok.totalSupply + amount,
                              !.balances[to] = tok.balances[to] + amount],
          logs |-> <<EvTransfer(NULL, to, amount), EvMint(to, amount)>>]

\* Token.mint
mint(tok, sender, to, amount) ==
    IF ~(tok.mintAuthority = NULL \/ tok.mintAuthority = sender)
    THEN Revert("Token: not authorized to mint")
    ELSE IF to = NULL THEN Revert("Token: cannot mint to zero address")
    ELSE IF ~(amount > 0) THEN Revert("Token: amount must be greater than zero")
    ELSE IF tok.maxSupply > 0 /\ tok.totalSupply + amount > MaxUint
    THEN Revert(PanicOverflow)
    ELSE IF tok.maxSupply > 0 /\ ~(tok.totalSupply + amount <= tok.maxSupply)
    THEN Revert("Token: exceeds max supply")
    ELSE IF tok.totalSupply + amount > MaxUint THEN Revert(PanicOverflow)
    ELSE IF tok.balances[to] + amount > MaxUint THEN Revert(PanicOverflow)
    ELSE [err |-> OK,
          tok |-> [tok EXCEPT !.totalSupply = tok.totalSupply + amount,
                              !.balances[to] = tok.balances[to] + amount],
          logs |-> <<EvTransfer(NULL, to, amount), EvMint(to, amount)>>]

\* updateMintAuthority accepting the null authority.
MutUpdateMintAuthorityNoNullCheck(tok, sender, newAuthority) ==
    IF ~(tok.mintAuthority = NULL \/ tok.mintAuthority = sender)
    THEN Revert("Token: not authorized")
    ELSE [err |-> OK,
          tok |-> [tok EXCEPT !.mintAuthority = newAuthority],
          logs |-> <<EvMintAuthorityUpdated(newAuthority)>>]

\* updateMintAuthority keeping the authority with the caller.
MutUpdateMintAuthoritySelf(tok, sender, newAuthority) ==
    IF ~(tok.mintAuthority = NULL \/ tok.mintAuthority = sender)
    THEN Revert("Token: not authorized")
    ELSE IF newAuthority = NULL THEN Revert("Token: invalid authority")
    ELSE [err |-> OK,
          tok |-> [tok EXCEPT !.mintAuthority = sender],
          logs |-> <<EvMintAuthorityUpdated(newAuthority)>>]

\* updateMintAuthority open to every caller.
MutUpdateMintAuthorityOpen(tok, sender, newAuthority) ==
    IF newAuthority = NULL THEN Revert("Token: invalid authority")
    ELSE [err |-> OK,
          tok |-> [tok EXCEPT !.mintAuthority = newAuthority],
          logs |-> <<EvMintAuthorityUpdated(newAuthority)>>]

\* Token.updateMintAuthority
updateMintAuthority(tok, sender, newAuthority) ==
    IF ~(tok.mintAuthority = NULL \/ tok.mintAuthority = sender)
    THEN Revert("Token: not authorized")
    ELSE IF newAuthority = NULL THEN Revert("Token: invalid authority")
    ELSE [err |-> OK,
          tok |-> [tok EXCEPT !.mintAuthority = newAuthority],
          logs |-> <<EvMintAuthorityUpdated(newAuthority)>>]

\* ---------------------------------------------------------- MintAuthority
\* resolveAuthority without the require of the SPECIFIC branch.
MutResolveAuthorityNoRequire(authorityType, deployer, specificAddress) ==
    IF authorityType = OWNER THEN [err |-> OK, authority |-> deployer]
    ELSE IF authorityType = ANYONE THEN [err |-> OK, authority |-> NULL]
    ELSE IF authorityType = SPECIFIC THEN [err |-> OK, authority |-> specificAddress]
    ELSE [err |-> "MintAuthority: invalid type", authority |-> NULL]

\* resolveAuthority with the OWNER and ANYONE branches exchanged.
MutResolveAuthoritySwapped(authorityType, deployer, specificAddress) ==
    IF authorityType = OWNER THEN [err |-> OK, authority |-> NULL]
    ELSE IF authorityType = ANYONE THEN [err |-> OK, authority |-> deployer]
    ELSE IF authorityType = SPECIFIC
    THEN IF specificAddress = NULL
         THEN [err |-> "MintAuthority: specific address required", authority |-> NULL]
         ELSE [err |-> OK, authority |-> specificAddress]
    ELSE [err |-> "MintAuthority: invalid type", authority |-> NULL]

\* MintAuthority.resolveAuthority
resolveAuthority(authorityType, deployer, specificAddress) ==
    IF authorityType = OWNER THEN [err |-> OK, authority |-> deployer]
    ELSE IF authorityType = ANYONE THEN [err |-> OK, authority |-> NULL]
    ELSE IF authorityType = SPECIFIC
    THEN IF specificAddress = NULL
         THEN [err |-> "MintAuthority: specific address required", authority |-> NULL]
         ELSE [err |-> OK, authority |-> specificAddress]
    ELSE [err |-> "MintAuthority: invalid type", authority |-> NULL]

\* ---------------------------------------------------------- TokenDeployer
\* The address of the contract the registry creates next ("new Token").
NewAddress == nonce

\* The log of a call: each event with the contract that emitted it.
EmittedBy(address, events) ==
    [i \in 1..Len(events) |-> [address |-> address, ev |-> events[i]]]

Deployer == "TokenDeployer"

\* The deployment put at the head of both lists.
MutTrackDeploymentPrepend(sender, tokenAddress) ==
    [deployedTokens |-> [deployedTokens EXCEPT ![sender] = <<tokenAddress>> \o @],
     allTokens |-> <<tokenAddress>> \o allTokens]

\* The deployment pushed on the creator's list only.
MutTrackDeploymentNoGlobal(sender, tokenAddress) ==
    [deployedTokens |-> [deployedTokens EXCEPT ![sender] = Append(@, tokenAddress)],
     allTokens |-> allTokens]

\* The deployment pushed on one list for every creator.
MutTrackDeploymentOneList(sender, tokenAddress) ==
    [deployedTokens |-> [deployedTokens EXCEPT ![NULL] = Append(@, tokenAddress)],
     allTokens |-> Append(allTokens, tokenAddress)]

\* TokenDeployer.deployToken, "Track the deployment": the two pushes.
TrackDeployment(sender, tokenAddress) ==
    [deployedTokens |-> [deployedTokens EXCEPT ![sender] = Append(@, tokenAddress)],
     allTokens |-> Append(allTokens, tokenAddress)]

\* deployToken without the require on the decimals.
MutDeployTokenAnyDecimals(sender, params) ==
    IF params.name = "" THEN Revert("TokenDeployer: name required")
    ELSE IF params.symbol = "" THEN Revert("TokenDeployer: symbol required")
    ELSE LET resolved == resolveAuthority(params.mintAuthorityType, sender,
                                          params.specificMintAuthority) IN
    IF resolved.err # OK THEN Revert(resolved.err)
    ELSE LET token == TokenConstructor(params.name, params.symbol, params.decimals,
                                       params.initialSupply, params.maxSupply,
                                       resolved.authority, sender)
             tokenAddress == NewAddress
             tracked == TrackDeployment(sender, tokenAddress) IN
    IF token.err # OK THEN Revert(token.err)
    ELSE [err |-> OK,
          ret |-> tokenAddress,
          deployedTokens |-> tracked.deployedTokens,
          allTokens |-> tracked.allTokens,
          nonce |-> nonce + 1,
          tokens |-> [a \in DOMAIN tokens \cup {tokenAddress} |->
                         IF a = tokenAddress THEN token.tok ELSE tokens[a]],
          logs |-> EmittedBy(tokenAddress, token.logs) \o
                   EmittedBy(Deployer,
                       <<EvTokenDeployed(tokenAddress, sender,
                                         params.name, params.symbol)>>)]

\* TokenDeployer.deployToken
deployToken(sender, params) ==
    IF params.name = "" THEN Revert("TokenDeployer: name required")
    ELSE IF params.symbol = "" THEN Revert("TokenDeployer: symbol required")
    ELSE IF ~(params.decimals <= MaxDecimals)
    THEN Revert("TokenDeployer: decimals too high")
    ELSE LET resolved == resolveAuthority(params.mintAuthorityType, sender,
                                          params.specificMintAuthority) IN
    IF resolved.err # OK THEN Revert(resolved.err)
    ELSE LET token == TokenConstructor(params.name, params.symbol, params.decimals,
                                       params.initialSupply, params.maxSupply,
                                       resolved.authority, sender)
             tokenAddress == NewAddress
             tracked == TrackDeployment(sender, tokenAddress) IN
    IF token.err # OK THEN Revert(token.err)
    ELSE [err |-> OK,
          ret |-> tokenAddress,
          deployedTokens |-> tracked.deployedTokens,
          allTokens |-> tracked.allTokens,
          nonce |-> nonce + 1,
          tokens |-> [a \in DOMAIN tokens \cup {tokenAddress} |->
                         IF a = tokenAddress THEN token.tok ELSE tokens[a]],
          logs |-> EmittedBy(tokenAddress, token.logs) \o
                   EmittedBy(Deployer,
                       <<EvTokenDeployed(tokenAddress, sender,
                                         params.name, params.symbol)>>)]

\* TokenDeployer.deployTokenSimple
deployTokenSimple(sender, name, symbol, decimals, initialSupply, maxSupply, mintAuthorityType, specificMintAuthority) ==
    IF mintAuthorityType \notin AuthorityTypes THEN Revert(PanicEnum)
    ELSE deployToken(sender,
             [name |-> name, symbol |-> symbol, decimals |-> decimals,
              initialSupply |-> initialSupply, maxSupply |-> maxSupply,
              mintAuthorityType |-> mintAuthorityType,
              specificMintAuthority |-> specificMintAuthority])

\* TokenDeployer.getDeployedTokens
getDeployedTokens(deployer) == deployedTokens[deployer]
\* TokenDeployer.getTotalTokensDeployed
getTotalTokensDeployed == Len(allTokens)
\* TokenDeployer.getAllTokens
getAllTokens == allTokens

\* ---------------------------------------------------------------- actions
Receipt(op, address, r, ret) ==
    [op |-> op, address |-> address, err |-> r.err,
     ret |-> IF r.err = OK THEN ret ELSE <<>>, logs |-> r.logs]

\* A call of the registry: commits the result's storage, or reverts.
RegistryCall(op, sender, r) ==
    /\ created' = IF r.err = OK THEN [created EXCEPT ![sender] = @ + 1] ELSE created
    /\ replaced' = <<>>
    /\ UNCHANGED window
    /\ last' = Receipt(op, Deployer, r, IF r.err = OK THEN <<r.ret>> ELSE <<>>)
    /\ IF r.err = OK
       THEN /\ deployedTokens' = r.deployedTokens
            /\ allTokens' = r.allTokens
            /\ nonce' = r.nonce
            /\ tokens' = r.tokens
       ELSE UNCHANGED <<deployedTokens, allTokens, nonce, tokens>>

\* A call of the token at address t: commits the result's storage, or reverts.
TokenCall(op, t, r, ret) ==
    /\ last' = Receipt(op, t, [err |-> r.err, logs |-> EmittedBy(t, r.logs)], ret)
    /\ tokens' = IF r.err = OK THEN [tokens EXCEPT ![t] = r.tok] ELSE tokens
    /\ replaced' = IF op = "updateMintAuthority" /\ r.err = OK
                   THEN <<tokens[t].mintAuthority>> ELSE <<>>
    /\ UNCHANGED <<deployedTokens, allTokens, nonce, created, window>>

TxDeployToken(supplies) ==
    \E sender \in Addr, params \in TokenParams(supplies, AuthorityTypes) :
        RegistryCall("deployToken", sender, deployToken(sender, params))

TxDeployTokenSimple(supplies) ==
    \E sender \in Addr, p \in TokenParams(supplies, AuthorityCodes) :
        RegistryCall("deployTokenSimple", sender,
            deployTokenSimple(sender, p.name, p.symbol, p.decimals,
                p.initialSupply, p.maxSupply, p.mintAuthorityType,
                p.specificMintAuthority))

TxTransfer ==
    \E t \in DOMAIN tokens, sender \in Users, to \in Addr, amount \in Amounts :
        TokenCall("transfer", t,
                  transfer(tokens[t], sender, to, amount), <<TRUE>>)

TxApprove ==
    \E t \in DOMAIN tokens, sender \in Users :
      \E spender \in Addr \ {sender}, amount \in Amounts :
        TokenCall("approve", t,
                  approve(tokens[t], sender, spender, amount), <<TRUE>>)

TxTransferFrom ==
    \E t \in DOMAIN tokens, sender \in Users, from \in Addr, to \in Addr,
       amount \in Amounts :
        TokenCall("transferFrom", t,
                  transferFrom(tokens[t], sender, from, to, amount), <<TRUE>>)

TxMint ==
    \E t \in DOMAIN tokens, sender \in Users, to \in Addr, amount \in Amounts :
        TokenCall("mint", t,
                  mint(tokens[t], sender, to, amount), <<>>)

TxUpdateMintAuthority ==
    \E t \in DOMAIN tokens, sender \in Users, newAuthority \in Addr :
        TokenCall("updateMintAuthority", t,
                  updateMintAuthority(tokens[t], sender, newAuthority), <<>>)

\* --------------------------------------------------------- specifications
Init ==
    /\ deployedTokens = [a \in Addr |-> <<>>]
    /\ allTokens = <<>>
    /\ nonce = 1
    /\ tokens = <<>>
    /\ last = [op |-> "constructor", address |-> Deployer, err |-> OK,
               ret |-> <<>>, logs |-> <<>>]
    /\ created = [a \in Addr |-> 0]
    /\ replaced = <<>>
    /\ window = [granted |-> <<>>, moved |-> 0, prevGranted |-> <<>>, prevMoved |-> 0]

\* The ledger specification: the registry creates its first token, and every
\* operation of that token is followed from there.
FirstDeployToken == allTokens = <<>> /\ TxDeployToken(InitialSupplies)
FirstDeployTokenSimple == allTokens = <<>> /\ TxDeployTokenSimple(InitialSupplies)

Next ==
    \/ FirstDeployToken
    \/ FirstDeployTokenSimple
    \/ TxTransfer
    \/ TxApprove
    \/ TxTransferFrom
    \/ TxMint
    \/ TxUpdateMintAuthority

Spec == Init /\ [][Next]_vars

\* The registry specification: create calls by every caller, interleaved.
CreateFollowed == Len(allTokens) < MaxTokens
BoundedDeployToken == CreateFollowed /\ TxDeployToken(RegistrySupplies)
BoundedDeployTokenSimple == CreateFollowed /\ TxDeployTokenSimple(RegistrySupplies)

NextRegistry ==
    \/ BoundedDeployToken
    \/ BoundedDeployTokenSimple

SpecRegistry == Init /\ [][NextRegistry]_vars

\* ------------------------------------------------------ error vocabulary
\* The error kinds of the specification, as the revert reasons of the source.
InvalidName == {"TokenDeployer: name required", "Token: name required"}
InvalidSymbol == {"TokenDeployer: symbol required", "Token: symbol required"}
DecimalsTooHigh == {"TokenDeployer: decimals too high"}
AuthorityRequired == {"MintAuthority: specific address required"}
InvalidPolicy == {"MintAuthority: invalid type"}
InitialSupplyExceedsCap == {"Token: initial supply exceeds max"}
InvalidRecipient == {"Token: invalid recipient"}
ZeroAddress == {"Token: transfer from zero address", "Token: transfer to zero address",
                "Token: approve from zero address", "Token: approve to zero address",
                "Token: cannot mint to zero address"}
InsufficientBalance == {"Token: insufficient balance"}
InsufficientAllowance == {"Token: insufficient allowance"}
Unauthorized == {"Token: not authorized to mint", "Token: not authorized"}
ZeroAmount == {"Token: amount must be greater than zero"}
ExceedsMaxSupply == {"Token: exceeds max supply"}
InvalidAuthority == {"Token: invalid authority"}

RECURSIVE SumOver(_, _)
SumOver(f, S) ==
    IF S = {} THEN 0
    ELSE LET a == CHOOSE x \in S : TRUE IN f[a] + SumOver(f, S \ {a})

\* The sum of all holder balances of a ledger.
SumBalances(tok) == SumOver(tok.balances, DOMAIN tok.balances)

\* ----------------------------------------------------------------- claims

\* C1 (Conservation): in every reachable state of every ledger, the sum of all
\* holder balances equals totalSupply.
C1_Conservation ==
    \A t \in DOMAIN tokens : SumBalances(tokens[t]) = tokens[t].totalSupply

\* A ledger whose supply is spread over two holders, right after a delegated
\* transfer.
C1_Witness ==
    \E t \in DOMAIN tokens :
        /\ last.op = "transferFrom" /\ last.err = OK /\ last.address = t
        /\ tokens[t].balances[1] > 0 /\ tokens[t].balances[2] > 0
        /\ tokens[t].totalSupply = MaxUint

\* C2 (Cap invariant): a ledger with a nonzero maxSupply never holds a
\* totalSupply above it, right after creation and after every mint.
C2_CapInvariant ==
    \A t \in DOMAIN tokens :
        tokens[t].maxSupply # 0 => tokens[t].totalSupply <= tokens[t].maxSupply

\* A capped ledger a mint has just filled exactly to its cap.
C2_Witness ==
    \E t \in DOMAIN tokens :
        /\ last.op = "mint" /\ last.err = OK /\ last.address = t
        /\ tokens[t].maxSupply # 0
        /\ tokens[t].totalSupply = tokens[t].maxSupply

\* C3 (Authority gating): while mintAuthority is a concrete identity, mint and
\* updateMintAuthority by any other caller fail with Unauthorized whatever the
\* other arguments are; while it is the anyone sentinel no call fails with
\* Unauthorized.
C3_AuthorityGating ==
    \A t \in DOMAIN tokens, sender \in Addr, to \in Addr, amount \in Amounts :
        LET tok == tokens[t]
            minted == mint(tok, sender, to, amount)
            updated == updateMintAuthority(tok, sender, to)
        IN /\ (tok.mintAuthority # NULL /\ sender # tok.mintAuthority)
                  => (minted.err \in Unauthorized /\ updated.err \in Unauthorized)
           /\ tok.mintAuthority = NULL
                  => (minted.err \notin Unauthorized /\ updated.err \notin Unauthorized)

\* A ledger with a concrete authority that has just refused a mint as
\* unauthorized.
C3_Witness ==
    \E t \in DOMAIN tokens :
        /\ tokens[t].mintAuthority # NULL
        /\ last.op = "mint" /\ last.address = t /\ last.err \in Unauthorized

IdsOf(list) == {list[i] : i \in 1..Len(list)}
Occurrences(list, id) == Cardinality({i \in 1..Len(list) : list[i] = id})

CreateOps == {"deployToken", "deployTokenSimple"}
\* The create calls the registry specification follows.
CreateInputs == TokenParams(RegistrySupplies, AuthorityTypes)

\* C5 (Registry two-view consistency): every ledger id appears exactly once in
\* allLedgers and exactly once across the byCreator lists, both hold the same
\* ids, every id names a ledger, and the id issued next is none of them.
C5_TwoViewConsistency ==
    LET global == IdsOf(getAllTokens)
        perCreator == UNION {IdsOf(getDeployedTokens(c)) : c \in Addr}
    IN /\ global = perCreator
       /\ global = DOMAIN tokens
       /\ \A id \in global \cup perCreator :
              /\ Occurrences(getAllTokens, id) = 1
              /\ SumOver([c \in Addr |-> Occurrences(getDeployedTokens(c), id)],
                         Addr) = 1
       /\ NewAddress \notin global

\* Two ledgers created by two creators.
C5_Witness ==
    /\ Len(getDeployedTokens(1)) = 1 /\ Len(getDeployedTokens(2)) = 1
    /\ Len(getAllTokens) = 2
    /\ last.op \in CreateOps /\ last.err = OK

\* C6 (Registry counts): getLedgersByCreator(C) is as long as the number of
\* successful create calls of C, getLedgerCount() is the number of successful
\* create calls of all callers, and failed calls count for nothing.
C6_RegistryCounts ==
    /\ \A c \in Addr : Len(getDeployedTokens(c)) = created[c]
    /\ getTotalTokensDeployed = SumOver(created, Addr)

\* One creator with two ledgers, the other with none.
C6_Witness ==
    /\ created[1] = 2 /\ created[2] = 0
    /\ Len(getDeployedTokens(1)) = 2 /\ getDeployedTokens(2) = <<>>
    /\ getTotalTokensDeployed = 2

\* The validations of a create call, as the claims state them.
NameEmpty(p) == p.name = ""
SymbolEmpty(p) == p.symbol = ""
DecimalsAbove(p) == p.decimals > MaxDecimals
SpecificMissing(p) ==
    p.mintAuthorityType = SPECIFIC /\ p.specificMintAuthority = NULL
AboveCap(p) == p.maxSupply # 0 /\ p.initialSupply > p.maxSupply
FailsValidation(sender, p) ==
    \/ NameEmpty(p) \/ SymbolEmpty(p) \/ DecimalsAbove(p)
    \/ SpecificMissing(p) \/ AboveCap(p) \/ sender = NULL

\* deployTokenSimple on the fields of p
Simple(sender, p) ==
    deployTokenSimple(sender, p.name, p.symbol, p.decimals, p.initialSupply,
                      p.maxSupply, p.mintAuthorityType, p.specificMintAuthority)

\* C7 (Create is atomic): a create call that fails any validation reverts, and
\* a create call that reverts, wherever the failure is detected, leaves both
\* lists, the ledgers and the creation nonce unchanged and emits no event.
C7_CreateAtomic ==
    /\ [](CreateFollowed =>
            \A sender \in Addr, p \in CreateInputs :
                FailsValidation(sender, p) =>
                    /\ deployToken(sender, p).err # OK
                    /\ Simple(sender, p).err # OK)
    /\ [][(last'.op \in CreateOps /\ last'.err # OK) =>
            /\ UNCHANGED <<deployedTokens, allTokens, tokens, nonce, created>>
            /\ last'.logs = <<>> /\ last'.ret = <<>>]_vars

\* A registry holding one ledger that has just refused a create call inside
\* the ledger's constructor.
C7_Witness ==
    /\ Len(getAllTokens) = 1
    /\ last.op \in CreateOps
    /\ last.err \in InitialSupplyExceedsCap
    /\ last.logs = <<>>

\* The error kind of the first validation a call fails, in the given order of
\* the recipient and the cap checks ({OK} when it fails none).
FirstFailure(sender, p, capBeforeRecipient) ==
    IF NameEmpty(p) THEN InvalidName
    ELSE IF SymbolEmpty(p) THEN InvalidSymbol
    ELSE IF DecimalsAbove(p) THEN DecimalsTooHigh
    ELSE IF SpecificMissing(p) THEN AuthorityRequired
    ELSE IF capBeforeRecipient
    THEN (IF AboveCap(p) THEN InitialSupplyExceedsCap
          ELSE IF sender = NULL THEN InvalidRecipient ELSE {OK})
    ELSE (IF sender = NULL THEN InvalidRecipient
          ELSE IF AboveCap(p) THEN InitialSupplyExceedsCap ELSE {OK})

CreateReports(capBeforeRecipient) ==
    CreateFollowed =>
        \A sender \in Addr, p \in CreateInputs :
            /\ deployToken(sender, p).err \in FirstFailure(sender, p, capBeforeRecipient)
            /\ Simple(sender, p).err \in FirstFailure(sender, p, capBeforeRecipient)

\* C8 as stated: create validates in the order name, symbol, decimals,
\* authority, initial-supply cap, recipient, and reports the first failure.
C8_OrderAsStated == CreateReports(TRUE)

\* C8 (amended): create validates in the order name, symbol, decimals,
\* authority, recipient, initial-supply cap, and reports the first failure: a
\* call above the cap by a null caller fails with InvalidRecipient.
C8_ValidationOrder == CreateReports(FALSE)

\* A create call has just failed with InvalidRecipient, the error of every
\* call above the cap by the null caller.
C8_Witness ==
    /\ last.op \in CreateOps /\ last.err \in InvalidRecipient
    /\ \E p \in CreateInputs :
        /\ AboveCap(p)
        /\ deployToken(NULL, p).err \in InvalidRecipient

\* The authority a policy resolves to, as the specification states it.
ExpectedAuthority(policy, creator, specificAddress) ==
    CASE policy = OWNER -> creator
      [] policy = ANYONE -> NULL
      [] policy = SPECIFIC -> specificAddress

\* C9 (Effect of a successful create): the new ledger has totalSupply and the
\* creator's balance equal to the initial supply, every other balance and every
\* allowance 0, maxSupply and metadata equal to the parameters and
\* mintAuthority equal to the resolved authority; no created ledger is seen
\* with totalSupply and its creator's balance in disagreement.
C9_CreateEffect ==
    /\ \A c \in Addr : \A i \in 1..Len(getDeployedTokens(c)) :
           LET tok == tokens[getDeployedTokens(c)[i]] IN
           /\ tok.totalSupply = balanceOf(tok, c)
           /\ \A a \in Addr \ {c} : balanceOf(tok, a) = 0
           /\ \A o \in Addr, sp \in Addr : allowance(tok, o, sp) = 0
    /\ CreateFollowed =>
           \A sender \in Addr, p \in CreateInputs :
               LET r == deployToken(sender, p) IN
               r.err = OK =>
                   /\ r.ret \in DOMAIN r.tokens
                   /\ r.tokens[r.ret] =
                        [name |-> p.name, symbol |-> p.symbol,
                         decimals |-> p.decimals, maxSupply |-> p.maxSupply,
                         mintAuthority |-> ExpectedAuthority(
                             p.mintAuthorityType, sender, p.specificMintAuthority),
                         totalSupply |-> p.initialSupply,
                         balances |-> [a \in Addr |->
                             IF a = sender THEN p.initialSupply ELSE 0],
                         allowances |-> [o \in Addr |-> [sp \in Addr |-> 0]]]
                   /\ \A a \in DOMAIN tokens : r.tokens[a] = tokens[a]

\* A ledger just created with an initial supply, all of it on its creator's
\* balance, and open to every minter.
C9_Witness ==
    /\ last.op \in CreateOps /\ last.err = OK
    /\ LET tok == tokens[last.ret[1]] IN
       /\ last.ret[1] \in IdsOf(getDeployedTokens(1))
       /\ tok.totalSupply = MaxUint /\ balanceOf(tok, 1) = MaxUint
       /\ tok.mintAuthority = NULL

\* C10 (Authority resolution): OWNER yields the creator and ANYONE the anyone
\* sentinel whatever specificAddress is, SPECIFIC yields a non-null
\* specificAddress and fails with AuthorityRequired on a null one; the new
\* ledger's mintAuthority is the resolved authority.
C10_AuthorityResolution ==
    /\ \A creator \in Addr, specificAddress \in Addr :
           /\ resolveAuthority(OWNER, creator, specificAddress) =
                  [err |-> OK, authority |-> creator]
           /\ resolveAuthority(ANYONE, creator, specificAddress) =
                  [err |-> OK, authority |-> NULL]
           /\ specificAddress # NULL =>
                  resolveAuthority(SPECIFIC, creator, specificAddress) =
                      [err |-> OK, authority |-> specificAddress]
           /\ resolveAuthority(SPECIFIC, creator, NULL).err \in AuthorityRequired
    /\ CreateFollowed =>
           \A sender \in Addr, p \in CreateInputs :
               LET r == deployToken(sender, p) IN
               r.err = OK =>
                   r.tokens[r.ret].mintAuthority =
                       resolveAuthority(p.mintAuthorityType, sender,
                                        p.specificMintAuthority).authority

\* A ledger created by 1 for the specific authority 2, and a create call that
\* has just failed for want of a specific authority.
C10_Witness ==
    /\ last.op \in CreateOps /\ last.err \in AuthorityRequired
    /\ \E i \in 1..Len(getDeployedTokens(1)) :
           tokens[getDeployedTokens(1)[i]].mintAuthority = 2

\* ------------------------------------------------------- ledger operations
LedgerOps == {"transfer", "approve", "transferFrom", "mint", "updateMintAuthority"}

\* C11 (No partial effects on failure): a transferFrom whose allowance is
\* sufficient but whose balance check or recipient check fails is a failing
\* call, and every failing ledger operation leaves every ledger's balances,
\* allowances, totalSupply and mintAuthority as before the call and appends
\* nothing to the event log, so that allowance stays undecremented.
C11_NoPartialEffects ==
    /\ [](\A t \in DOMAIN tokens, sender \in Users, from \in Addr, to \in Addr, amount \in Amounts :
            (/\ allowance(tokens[t], from, sender) >= amount
             /\ (to = NULL \/ balanceOf(tokens[t], from) < amount)) =>
                transferFrom(tokens[t], sender, from, to, amount).err # OK)
    /\ [][(last'.op \in LedgerOps /\ last'.err # OK) =>
            /\ UNCHANGED <<tokens, deployedTokens, allTokens, nonce, created>>
            /\ last'.logs = <<>> /\ last'.ret = <<>>]_vars

\* A transferFrom has just failed on the balance check of an owner who holds
\* nothing, and a spender's allowance of 1 over that owner is still in place.
C11_Witness ==
    /\ last.op = "transferFrom" /\ last.err \in InsufficientBalance
    /\ \E t \in DOMAIN tokens, o \in Users, s \in Users :
        /\ last.address = t
        /\ balanceOf(tokens[t], o) = 0 /\ balanceOf(tokens[t], s) = 0
        /\ allowance(tokens[t], o, s) = 1 /\ allowance(tokens[t], s, o) = 0

\* C12 (Infinite approval is never consumed): while allowances[from][spender]
\* is the maximum representable value, a transferFrom by spender out of from
\* succeeds exactly when the recipient is non-null and balances[from] covers
\* the amount, and every such success leaves every allowance, that one
\* included, as it was; so the allowance is still the maximum after any number
\* of transfers.
C12_InfiniteApproval ==
    \A t \in DOMAIN tokens, sender \in Addr, from \in Addr, to \in Addr, amount \in Amounts :
        allowance(tokens[t], from, sender) = MaxUint =>
            LET r == transferFrom(tokens[t], sender, from, to, amount) IN
            /\ r.err = OK <=> (to # NULL /\ balanceOf(tokens[t], from) >= amount)
            /\ r.err = OK =>
                /\ allowance(r.tok, from, sender) = MaxUint
                /\ r.tok.allowances = tokens[t].allowances

\* A transferFrom has just moved 1 out of an owner under a spender's infinite
\* approval: the log holds the transfer alone, without an approval event, and
\* the allowance is still the maximum value.
C12_Witness ==
    /\ last.op = "transferFrom" /\ last.err = OK
    /\ \E t \in DOMAIN tokens, o \in Users, s \in Users, to \in Users :
        /\ o # s /\ last.address = t
        /\ last.logs = EmittedBy(t, <<EvTransfer(o, to, 1)>>)
        /\ allowance(tokens[t], o, s) = MaxUint
        /\ allowance(tokens[t], s, o) # MaxUint

\* C13 (Finite allowance accounting): a successful transferFrom(from, to,
\* amount) by spender under a non-infinite allowance a sets
\* allowances[from][spender] to a - amount, takes amount from balances[from]
\* and adds it to balances[to], and leaves every other allowance pair (the
\* mirrored pair allowances[spender][from] included), every other balance,
\* totalSupply, maxSupply and mintAuthority as they were.
C13_FiniteAllowance ==
    \A t \in DOMAIN tokens, sender \in Addr, from \in Addr, to \in Addr, amount \in Amounts :
        LET tok == tokens[t]
            a == allowance(tok, from, sender)
            r == transferFrom(tok, sender, from, to, amount)
            debited == [tok.balances EXCEPT ![from] = @ - amount]
            credited == [debited EXCEPT ![to] = @ + amount]
        IN (a # MaxUint /\ r.err = OK) =>
            r.tok = [tok EXCEPT !.allowances[from][sender] = a - amount,
                                !.balances = credited]

\* A transferFrom has just spent a finite allowance of 1 in full: the log
\* holds the approval event of the remaining 0 and the transfer of 1 to
\* the spender, while the mirrored pair still holds its own allowance of 1.
C13_Witness ==
    /\ last.op = "transferFrom" /\ last.err = OK
    /\ \E t \in DOMAIN tokens, o \in Users, s \in Users :
        /\ o # s /\ last.address = t
        /\ last.logs = EmittedBy(t, <<EvApproval(o, s, 0), EvTransfer(o, s, 1)>>)
        /\ allowance(tokens[t], o, s) = 0
        /\ allowance(tokens[t], s, o) = 1
        /\ balanceOf(tokens[t], s) = 1

\* C14 (approve is an absolute set): approve(spender, amount) by an owner with
\* a non-null spender succeeds whatever the owner's balance and the previous
\* allowance are, sets allowance(owner, spender) to amount and changes nothing
\* else; approving the same amount again changes nothing more; approve with a
\* null spender fails with ZeroAddress.
C14_ApproveSets ==
    \A t \in DOMAIN tokens, owner \in Users, spender \in Addr, amount \in Amounts :
        LET tok == tokens[t]
            r == approve(tok, owner, spender, amount)
        IN /\ spender = NULL => r.err \in ZeroAddress
           /\ spender # NULL =>
                /\ r.err = OK
                /\ allowance(r.tok, owner, spender) = amount
                /\ r.tok = [tok EXCEPT !.allowances[owner][spender] = amount]
                /\ approve(r.tok, owner, spender, amount).err = OK
                /\ approve(r.tok, owner, spender, amount).tok = r.tok

\* An owner who holds nothing has just approved 1 to a spender who holds the
\* whole supply: the allowance is 1, above the owner's balance.
C14_Witness ==
    /\ last.op = "approve" /\ last.err = OK
    /\ \E t \in DOMAIN tokens, o \in Users, s \in Users :
        /\ o # s /\ last.address = t
        /\ last.logs = EmittedBy(t, <<EvApproval(o, s, 1)>>)
        /\ allowance(tokens[t], o, s) = 1
        /\ balanceOf(tokens[t], o) = 0
        /\ balanceOf(tokens[t], s) = MaxUint

\* C15 (transfer): transfer(to, amount) by a caller succeeds exactly when to is
\* non-null and balances[caller] >= amount, amount 0 included; on success
\* amount leaves balances[caller] and is added to balances[to] (a transfer to
\* oneself leaves the balance as it was) and nothing else changes; it fails
\* with ZeroAddress when to is null, and with InsufficientBalance when to is
\* non-null and balances[caller] < amount.
C15_Transfer ==
    \A t \in DOMAIN tokens, caller \in Users, to \in Addr, amount \in Amounts :
        LET tok == tokens[t]
            r == transfer(tok, caller, to, amount)
            debited == [tok.balances EXCEPT ![caller] = @ - amount]
            credited == [debited EXCEPT ![to] = @ + amount]
        IN /\ r.err = OK <=> (to # NULL /\ balanceOf(tok, caller) >= amount)
           /\ r.err = OK =>
                /\ r.tok = [tok EXCEPT !.balances = credited]
                /\ to = caller => r.tok = tok
           /\ to = NULL => r.err \in ZeroAddress
           /\ (to # NULL /\ balanceOf(tok, caller) < amount) =>
                r.err \in InsufficientBalance

\* A holder of the whole supply has just transferred all of it to the other
\* user.
C15_Witness ==
    /\ last.op = "transfer" /\ last.err = OK
    /\ \E t \in DOMAIN tokens, c \in Users, to \in Users :
        /\ c # to /\ last.address = t
        /\ last.logs = EmittedBy(t, <<EvTransfer(c, to, MaxUint)>>)
        /\ balanceOf(tokens[t], c) = 0
        /\ balanceOf(tokens[t], to) = MaxUint

\* C16 (Successful mint): a successful mint(to, amount) adds amount to
\* totalSupply and to balances[to], changes no other balance, no allowance,
\* not maxSupply and not mintAuthority, and appends two events to the log: one
\* mint event (to, amount) and one transfer event (null, to, amount).
C16_MintEffect ==
    \A t \in DOMAIN tokens, sender \in Users, to \in Addr, amount \in Amounts :
        LET tok == tokens[t]
            r == mint(tok, sender, to, amount)
        IN r.err = OK =>
            /\ r.tok = [tok EXCEPT !.totalSupply = @ + amount,
                                   !.balances[to] = @ + amount]
            /\ Len(r.logs) = 2
            /\ {r.logs[i] : i \in 1..2} = {EvMint(to, amount), EvTransfer(NULL, to, amount)}

\* A mint of 1 has just succeeded on a ledger whose supply was 1, held by the
\* other user: the recipient holds the 1 just minted and the supply is 2.
C16_Witness ==
    /\ last.op = "mint" /\ last.err = OK
    /\ \E t \in DOMAIN tokens, to \in Users, other \in Users :
        /\ other # to /\ last.address = t
        /\ {last.logs[i] : i \in DOMAIN last.logs} = {[address |-> t, ev |-> EvMint(to, 1)], [address |-> t, ev |-> EvTransfer(NULL, to, 1)]}
        /\ balanceOf(tokens[t], to) = 1
        /\ balanceOf(tokens[t], other) = 1
        /\ tokens[t].totalSupply = 2

\* The caller passes mint's authorization check.
MayMint(tok, sender) == tok.mintAuthority = NULL \/ tok.mintAuthority = sender

\* C17 as stated (mint check order): mint reports Unauthorized, then
\* ZeroAddress if to is null, then ZeroAmount if amount is 0, then
\* ExceedsMaxSupply if maxSupply # 0 and totalSupply + amount > maxSupply; a
\* mint that brings totalSupply exactly to maxSupply succeeds, and with
\* maxSupply = 0 no mint fails with ExceedsMaxSupply.
C17_OrderAsStated ==
    \A t \in DOMAIN tokens, sender \in Users, to \in Addr, amount \in Amounts :
        LET tok == tokens[t]
            r == mint(tok, sender, to, amount)
        IN /\ IF ~MayMint(tok, sender) THEN r.err \in Unauthorized
              ELSE IF to = NULL THEN r.err \in ZeroAddress
              ELSE IF amount = 0 THEN r.err \in ZeroAmount
              ELSE IF tok.maxSupply # 0 /\ tok.totalSupply + amount > tok.maxSupply
              THEN r.err \in ExceedsMaxSupply
              ELSE tok.totalSupply + amount = tok.maxSupply => r.err = OK
           /\ tok.maxSupply = 0 => r.err \notin ExceedsMaxSupply

\* C17 (mint check order): mint reports Unauthorized, then ZeroAddress if to
\* is null, then ZeroAmount if amount is 0; then, if totalSupply + amount is
\* above the maximum representable value, it fails with the arithmetic
\* overflow panic, on a capped ledger as on an uncapped one; otherwise it
\* fails with ExceedsMaxSupply if maxSupply # 0 and totalSupply + amount >
\* maxSupply, and succeeds if not. A mint that brings totalSupply exactly to
\* maxSupply succeeds, and with maxSupply = 0 no mint fails with
\* ExceedsMaxSupply.
C17_MintOrder ==
    \A t \in DOMAIN tokens, sender \in Users, to \in Addr, amount \in Amounts :
        LET tok == tokens[t]
            r == mint(tok, sender, to, amount)
        IN /\ IF ~MayMint(tok, sender) THEN r.err \in Unauthorized
              ELSE IF to = NULL THEN r.err \in ZeroAddress
              ELSE IF amount = 0 THEN r.err \in ZeroAmount
              ELSE IF tok.totalSupply + amount > MaxUint THEN r.err = PanicOverflow
              ELSE IF tok.maxSupply # 0 /\ tok.totalSupply + amount > tok.maxSupply
              THEN r.err \in ExceedsMaxSupply
              ELSE r.err = OK
           /\ (MayMint(tok, sender) /\ to # NULL /\ amount # 0
                 /\ tok.totalSupply + amount = tok.maxSupply) => r.err = OK
           /\ tok.maxSupply = 0 => r.err \notin ExceedsMaxSupply

\* A mint on a ledger capped at 2 with a supply of 1 has just failed with the
\* overflow panic: the amount was the maximum value, and the sum was above the
\* cap as well.
C17_Witness ==
    /\ last.op = "mint" /\ last.err = PanicOverflow
    /\ \E t \in DOMAIN tokens :
        /\ last.address = t
        /\ tokens[t].maxSupply = 2 /\ tokens[t].totalSupply = 1

\* C18 (Authority hand-over): a successful updateMintAuthority(newAuthority)
\* sets mintAuthority to newAuthority and changes nothing else; on the ledger
\* it leaves, mint and updateMintAuthority by any caller other than
\* newAuthority, the previous authority included, fail with Unauthorized, and
\* newAuthority's own calls do not; and a ledger's mintAuthority changes only
\* by a successful updateMintAuthority on that ledger.
C18_HandOver ==
    /\ [](\A t \in DOMAIN tokens, sender \in Users, newAuthority \in Addr :
            LET tok == tokens[t]
                r == updateMintAuthority(tok, sender, newAuthority)
            IN r.err = OK =>
                /\ r.tok = [tok EXCEPT !.mintAuthority = newAuthority]
                /\ \A caller \in Users, to \in Addr, amount \in Amounts :
                    IF caller = newAuthority
                    THEN /\ mint(r.tok, caller, to, amount).err \notin Unauthorized
                         /\ updateMintAuthority(r.tok, caller, to).err \notin Unauthorized
                    ELSE /\ mint(r.tok, caller, to, amount).err \in Unauthorized
                         /\ updateMintAuthority(r.tok, caller, to).err \in Unauthorized)
    /\ [][\A t \in DOMAIN tokens :
            tokens'[t].mintAuthority # tokens[t].mintAuthority =>
                /\ last'.op = "updateMintAuthority" /\ last'.err = OK
                /\ last'.address = t]_vars

\* The authority 1 has just handed a ledger over to 2.
C18_Witness ==
    /\ last.op = "updateMintAuthority" /\ last.err = OK
    /\ replaced = <<1>>
    /\ \E t \in DOMAIN tokens :
        /\ last.address = t
        /\ last.logs = EmittedBy(t, <<EvMintAuthorityUpdated(2)>>)
        /\ tokens[t].mintAuthority = 2

\* C19 (Public minting cannot be re-opened): updateMintAuthority with a null
\* newAuthority always fails, with InvalidAuthority when the caller passes the
\* authorization check; and a ledger whose mintAuthority is a concrete
\* identity has a concrete identity in the next state, so the anyone sentinel
\* is only ever the value set at creation.
C19_NoReopening ==
    /\ [](\A t \in DOMAIN tokens, sender \in Users :
            LET r == updateMintAuthority(tokens[t], sender, NULL) IN
            /\ r.err # OK
            /\ MayMint(tokens[t], sender) => r.err \in InvalidAuthority)
    /\ [][\A t \in DOMAIN tokens :
            tokens[t].mintAuthority # NULL => tokens'[t].mintAuthority # NULL]_vars

\* The authority of a ledger has just been refused the null identity as the
\* next authority.
C19_Witness ==
    /\ last.op = "updateMintAuthority" /\ last.err \in InvalidAuthority
    /\ \E t \in DOMAIN tokens :
        /\ last.address = t
        /\ tokens[t].mintAuthority # NULL

Succeeded(op, t) == last'.op = op /\ last'.err = OK /\ last'.address = t

\* C21 (totalSupply is monotone): in every step a ledger's totalSupply does not
\* decrease; it changes only in a successful mint on that ledger (so transfer,
\* approve, transferFrom and updateMintAuthority leave it unchanged), and every
\* successful mint strictly increases it.
C21_SupplyMonotone ==
    [][\A t \in DOMAIN tokens :
        /\ tokens'[t].totalSupply >= tokens[t].totalSupply
        /\ tokens'[t].totalSupply # tokens[t].totalSupply => Succeeded("mint", t)
        /\ Succeeded("mint", t) => tokens'[t].totalSupply > tokens[t].totalSupply]_vars

\* A mint of 1 has just raised the supply of a ledger created empty to 1.
C21_Witness ==
    /\ last.op = "mint" /\ last.err = OK
    /\ \E t \in DOMAIN tokens, to \in Users :
        /\ last.address = t
        /\ last.logs = EmittedBy(t, <<EvTransfer(NULL, to, 1), EvMint(to, 1)>>)
        /\ tokens[t].totalSupply = 1

\* C22 (Immutable parameters): every ledger created through the registry has a
\* non-empty name, a non-empty symbol and decimals of at most 18, and no step
\* changes the name, symbol, decimals or maxSupply of a ledger.
C22_ImmutableParameters ==
    /\ [](\A t \in DOMAIN tokens :
            /\ tokens[t].name # "" /\ tokens[t].symbol # ""
            /\ tokens[t].decimals <= MaxDecimals)
    /\ [][\A t \in DOMAIN tokens :
            /\ tokens'[t].name = tokens[t].name
            /\ tokens'[t].symbol = tokens[t].symbol
            /\ tokens'[t].decimals = tokens[t].decimals
            /\ tokens'[t].maxSupply = tokens[t].maxSupply]_vars

\* A ledger created with a cap of 2 and 18 decimals that has since been minted
\* to its cap and has just had its mint authority reassigned.
C22_Witness ==
    /\ last.op = "updateMintAuthority" /\ last.err = OK
    /\ \E t \in DOMAIN tokens :
        /\ last.address = t
        /\ tokens[t].name = "Arc" /\ tokens[t].symbol = "ARC"
        /\ tokens[t].decimals = MaxDecimals
        /\ tokens[t].maxSupply = 2 /\ tokens[t].totalSupply = 2
        /\ tokens[t].balances[1] = 1 /\ tokens[t].balances[2] = 1

\* The create calls of deployTokenSimple that pass every validation but carry
\* a policy code that is none of OWNER, ANYONE, SPECIFIC.
OutOfRangePolicyInputs ==
    {p \in TokenParams(RegistrySupplies, AuthorityCodes \ AuthorityTypes) :
        ~NameEmpty(p) /\ ~SymbolEmpty(p) /\ ~DecimalsAbove(p) /\ ~AboveCap(p)}

\* C23 (Out-of-range policy): a create call through deployTokenSimple whose
\* policy code is none of OWNER, ANYONE, SPECIFIC fails with InvalidPolicy (and
\* so creates no ledger and leaves both registry lists unchanged).
C23_PolicyRejected ==
    CreateFollowed =>
        \A sender \in Users, p \in OutOfRangePolicyInputs :
            Simple(sender, p).err \in InvalidPolicy

\* A deployTokenSimple call has just been refused with the enum-conversion
\* panic, the outcome of every call with an out-of-range policy code.
C23_Witness ==
    /\ last.op = "deployTokenSimple" /\ last.err = PanicEnum
    /\ last.logs = <<>> /\ last.ret = <<>>
    /\ \A sender \in Users, p \in OutOfRangePolicyInputs :
        Simple(sender, p).err = PanicEnum

\* --------------------------------------------------------- creation events
\* The TokenDeployed events of a log, in order.
DeployedEvents(logs) == SelectSeq(logs, LAMBDA l : l.ev.event = "TokenDeployed")

\* testTokenDeployer.js, "Get token address from event": the token of the
\* first log that parses as TokenDeployed; <<>> when there is none.
TokenAddressFromEvent(logs) ==
    IF DeployedEvents(logs) = <<>> THEN <<>> ELSE <<DeployedEvents(logs)[1].ev.token>>

\* The receipt of a create call by sender with result r has one TokenDeployed
\* event, of the registry, that names the returned id and the caller, and the
\* returned id is the last of both lists; a failed call has no event.
EventAgrees(sender, r) ==
    IF r.err = OK
    THEN /\ Len(DeployedEvents(r.logs)) = 1
         /\ DeployedEvents(r.logs)[1].address = Deployer
         /\ DeployedEvents(r.logs)[1].ev.token = r.ret
         /\ DeployedEvents(r.logs)[1].ev.deployer = sender
         /\ r.allTokens = Append(allTokens, r.ret)
         /\ r.deployedTokens[sender] = Append(deployedTokens[sender], r.ret)
         /\ TokenAddressFromEvent(r.logs) = <<r.ret>>
    ELSE r.logs = <<>>

\* C24 (The ledger-created event agrees with the return value): every
\* successful create emits exactly one TokenDeployed event whose token is the
\* id the call returns and appends to both lists and whose deployer is the
\* caller; a failed create emits none; so the id extracted from the events of a
\* receipt is the returned id.
C24_EventAgreesWithReturn ==
    /\ CreateFollowed =>
        \A sender \in Addr, p \in CreateInputs :
            /\ EventAgrees(sender, deployToken(sender, p))
            /\ EventAgrees(sender, Simple(sender, p))
    /\ (last.op \in CreateOps /\ last.err = OK) =>
        /\ TokenAddressFromEvent(last.logs) = last.ret
        /\ last.ret[1] = allTokens[Len(allTokens)]
    /\ (last.op \in CreateOps /\ last.err # OK) =>
        TokenAddressFromEvent(last.logs) = <<>>

\* The second create of a registry has just succeeded with an initial supply:
\* its receipt holds the ledger's own events before the TokenDeployed event,
\* which names the returned id 2 and the creator 2.
C24_Witness ==
    /\ last.op \in CreateOps /\ last.err = OK /\ last.ret = <<2>>
    /\ Len(last.logs) = 3
    /\ last.logs[3].ev.event = "TokenDeployed"
    /\ last.logs[3].ev.token = 2 /\ last.logs[3].ev.deployer = 2
    /\ getAllTokens = <<1, 2>> /\ getDeployedTokens(2) = <<2>>

\* The events of the ledger at address t in a log, in order: the registry's
\* own events, all TokenDeployed, are left out.
LedgerEvents(logs, t) == SelectSeq(logs, LAMBDA l : l.ev.event # "TokenDeployed" /\ l.address = t)

\* C25 as stated (Creation transfer event): every ledger creation emits, as the
\* first event of the new ledger, a transfer event from null to the creator
\* carrying the initial supply.
C25_EveryCreationEmits ==
    CreateFollowed =>
        \A sender \in Addr, p \in CreateInputs :
            LET r == deployToken(sender, p) IN
            r.err = OK =>
                /\ LedgerEvents(r.logs, r.ret) # <<>>
                /\ LedgerEvents(r.logs, r.ret)[1].ev = EvTransfer(NULL, sender, p.initialSupply)

\* C25 (Creation transfer event): a ledger creation with a non-zero initial
\* supply emits, as the first event of the new ledger, a transfer event from
\* null to the creator carrying the initial supply; a creation with an initial
\* supply of 0 emits no event of the new ledger.
C25_CreationTransfer ==
    CreateFollowed =>
        \A sender \in Addr, p \in CreateInputs :
            \A r \in {deployToken(sender, p), Simple(sender, p)} :
                r.err = OK =>
                    IF p.initialSupply > 0
                    THEN /\ LedgerEvents(r.logs, r.ret) # <<>>
                         /\ LedgerEvents(r.logs, r.ret)[1].ev = EvTransfer(NULL, sender, p.initialSupply)
                         /\ r.logs[1].address = r.ret
                    ELSE LedgerEvents(r.logs, r.ret) = <<>>

\* A create with an initial supply of 0 has just succeeded: its receipt holds
\* the TokenDeployed event alone, and the new ledger has no supply.
C25_Witness ==
    /\ last.op \in CreateOps /\ last.err = OK
    /\ Len(last.logs) = 1 /\ last.logs[1].ev.event = "TokenDeployed"
    /\ LedgerEvents(last.logs, last.ret[1]) = <<>>
    /\ tokens[last.ret[1]].totalSupply = 0

\* ------------------------------------------------------ read-only accessors
TokenViewFns == {"name", "symbol", "decimals", "totalSupply", "maxSupply", "mintAuthority", "balanceOf", "allowance"}
RegistryViewFns == {"getDeployedTokens", "getTotalTokensDeployed", "getAllTokens"}
ViewFns == TokenViewFns \cup RegistryViewFns

\* The argument lists of an accessor.
ViewArgs(fn) ==
    CASE fn \in {"balanceOf", "getDeployedTokens"} -> {<<a>> : a \in Addr}
      [] fn = "allowance" -> {<<o, s>> : o \in Addr, s \in Addr}
      [] OTHER -> {<<>>}

\* The view functions of Token on the storage tok.
TokenView(tok, fn, args) ==
    CASE fn = "name" -> tok.name
      [] fn = "symbol" -> tok.symbol
      [] fn = "decimals" -> tok.decimals
      [] fn = "totalSupply" -> tok.totalSupply
      [] fn = "maxSupply" -> tok.maxSupply
      [] fn = "mintAuthority" -> tok.mintAuthority
      [] fn = "balanceOf" -> balanceOf(tok, args[1])
      [] fn = "allowance" -> allowance(tok, args[1], args[2])

\* The view functions of TokenDeployer.
RegistryView(fn, args) ==
    CASE fn = "getDeployedTokens" -> getDeployedTokens(args[1])
      [] fn = "getTotalTokensDeployed" -> getTotalTokensDeployed
      [] fn = "getAllTokens" -> getAllTokens

\* A view function that writes the storage it reads.
MutViewCallWrites(fn, address, args, value) ==
    /\ last' = [op |-> fn, address |-> address, err |-> OK, ret |-> <<value>>,
                logs |-> <<>>, args |-> args]
    /\ replaced' = <<>>
    /\ nonce' = nonce + 1
    /\ UNCHANGED <<deployedTokens, allTokens, tokens, created, window>>

\* A call of a view function: it returns value and writes nothing. The
\* arguments are kept with the returned value.
ViewCall(fn, address, args, value) ==
    /\ last' = [op |-> fn, address |-> address, err |-> OK, ret |-> <<value>>,
                logs |-> <<>>, args |-> args]
    /\ replaced' = <<>>
    /\ UNCHANGED <<deployedTokens, allTokens, nonce, tokens, created, window>>

CallTokenView ==
    \E t \in DOMAIN tokens, fn \in TokenViewFns :
        \E args \in ViewArgs(fn) :
            ViewCall(fn, t, args, TokenView(tokens[t], fn, args))

CallRegistryView ==
    \E fn \in RegistryViewFns :
        \E args \in ViewArgs(fn) :
            ViewCall(fn, Deployer, args, RegistryView(fn, args))

\* The accessor specification: one ledger is created, transfers and approvals
\* change it, and every accessor is called in between.
NextViews ==
    \/ FirstDeployToken
    \/ TxTransfer
    \/ TxApprove
    \/ CallTokenView
    \/ CallRegistryView

SpecViews == Init /\ [][NextViews]_vars

C27_AllowanceFirst ==
    \A t \in DOMAIN tokens, sender \in Users, from \in Addr, to \in Addr, amount \in Amounts :
        LET a == allowance(tokens[t], from, sender)
            r == transferFrom(tokens[t], sender, from, to, amount)
        IN /\ (a # MaxUint /\ a < amount) => r.err \in InsufficientAllowance
           /\ r.err \in (ZeroAddress \cup InsufficientBalance) =>
                (a = MaxUint \/ a >= amount)

\* A transferFrom has just failed with InsufficientAllowance on a ledger
\* without supply, where no balance covers any amount above an allowance, and
\* the spender 2 has an allowance of 1 over the owner 1.
C27_Witness ==
    /\ last.op = "transferFrom" /\ last.err \in InsufficientAllowance
    /\ \E t \in DOMAIN tokens :
        /\ last.address = t
        /\ tokens[t].totalSupply = 0
        /\ balanceOf(tokens[t], 1) = 0
        /\ allowance(tokens[t], 1, 2) = 1 /\ allowance(tokens[t], 2, 1) = 0

\* ------------------------------------------------------------ approval race
\* The owner, the spender and the amounts of the approval specification.
RaceOwner == 1
RaceSpender == 2
RaceAmounts == {1, 2, MaxUint}

\* A call of the token at address t, as TokenCall, that also keeps the
\* history: w is the window after a successful call.
RaceCall(op, t, r, w) ==
    /\ last' = Receipt(op, t, [err |-> r.err, logs |-> EmittedBy(t, r.logs)], <<TRUE>>)
    /\ tokens' = IF r.err = OK THEN [tokens EXCEPT ![t] = r.tok] ELSE tokens
    /\ replaced' = <<>>
    /\ window' = IF r.err = OK THEN w ELSE window
    /\ UNCHANGED <<deployedTokens, allTokens, nonce, created>>

\* The owner approves the spender: a new window opens.
RaceApprove ==
    \E t \in DOMAIN tokens, amount \in RaceAmounts :
        RaceCall("approve", t, approve(tokens[t], RaceOwner, RaceSpender, amount),
                 [granted |-> <<amount>>, moved |-> 0,
                  prevGranted |-> window.granted, prevMoved |-> window.moved])

\* The spender takes amount from the owner.
RaceTransferFrom ==
    \E t \in DOMAIN tokens, amount \in RaceAmounts :
        RaceCall("transferFrom", t,
                 transferFrom(tokens[t], RaceSpender, RaceOwner, RaceSpender, amount),
                 [window EXCEPT !.moved = @ + amount])

\* The approval specification: one ledger is created, its owner approves the
\* spender again and again, and the spender takes what it can in between.
NextRace ==
    \/ FirstDeployToken
    \/ RaceApprove
    \/ RaceTransferFrom

SpecRace == Init /\ [][NextRace]_vars

\* C28 (Approval race): between two consecutive approvals of the owner, the
\* total the spender moves never exceeds the value set by the earlier one,
\* unless that value is the infinite sentinel. (That the spender can move the
\* old and the new value, A + B in total, around the second approval is the
\* state C28_Witness describes.)
C28_WindowBound ==
    /\ (window.granted # <<>> /\ window.granted[1] # MaxUint) =>
            window.moved <= window.granted[1]
    /\ (window.prevGranted # <<>> /\ window.prevGranted[1] # MaxUint) =>
            window.prevMoved <= window.prevGranted[1]
    /\ window.granted = <<>> => window.moved = 0

\* The owner approved 1 and later 2; the spender took 1 between the two
\* approvals and 2 after the second: 3 in total out of the owner's balance.
C28_Witness ==
    /\ window.prevGranted = <<1>> /\ window.prevMoved = 1
    /\ window.granted = <<2>> /\ window.moved = 2
    /\ last.op = "transferFrom" /\ last.err = OK
    /\ balanceOf(tokens[last.address], RaceSpender) = window.prevMoved + window.moved
    /\ balanceOf(tokens[last.address], RaceOwner) = tokens[last.address].totalSupply - 3

\* ------------------------------------------------- the registry over time
\* The create calls of the append specification: public-mint ledgers without
\* supply or cap, with a valid or an empty name.
AppendParams ==
    {p \in TokenParams({0}, {ANYONE}) :
        p.symbol # "" /\ p.decimals = MaxDecimals /\ p.maxSupply = 0
        /\ p.specificMintAuthority = NULL}

AppendCreate ==
    /\ CreateFollowed
    /\ \E sender \in Addr, params \in AppendParams :
        RegistryCall("deployToken", sender, deployToken(sender, params))

\* One call of each ledger operation, on any ledger: 1 mints the largest
\* amount to itself, transfers it to 2, takes the mint authority, approves 0
\* to 2, and 2 takes 0 from 1.
AppendMint ==
    \E t \in DOMAIN tokens :
        TokenCall("mint", t, mint(tokens[t], 1, 1, MaxUint), <<>>)
AppendTransfer ==
    \E t \in DOMAIN tokens :
        TokenCall("transfer", t, transfer(tokens[t], 1, 2, MaxUint), <<TRUE>>)
AppendApprove ==
    \E t \in DOMAIN tokens :
        TokenCall("approve", t, approve(tokens[t], 1, 2, 0), <<TRUE>>)
AppendTransferFrom ==
    \E t \in DOMAIN tokens :
        TokenCall("transferFrom", t, transferFrom(tokens[t], 2, 1, 2, 0), <<TRUE>>)
AppendUpdateMintAuthority ==
    \E t \in DOMAIN tokens :
        TokenCall("updateMintAuthority", t, updateMintAuthority(tokens[t], 1, 1), <<>>)

\* The append specification: creates by every caller, interleaved with the
\* operations of the ledgers created so far.
NextAppend ==
    \/ AppendCreate
    \/ AppendMint
    \/ AppendTransfer
    \/ AppendApprove
    \/ AppendTransferFrom
    \/ AppendUpdateMintAuthority

SpecAppend == Init /\ [][NextAppend]_vars

IsPrefix(s, l) == Len(s) <= Len(l) /\ SubSeq(l, 1, Len(s)) = s

\* s is l without some of its entries, the others in the same order.
RECURSIVE IsSubsequence(_, _)
IsSubsequence(s, l) ==
    IF s = <<>> THEN TRUE
    ELSE IF l = <<>> THEN FALSE
    ELSE IF Head(s) = Head(l) THEN IsSubsequence(Tail(s), Tail(l))
    ELSE IsSubsequence(s, Tail(l))

\* C29 (The registry is append-only and order-preserving): every list of a
\* state is a prefix of the same list in the next state; a successful create
\* by caller C appends the returned id at the end of byCreator[C] and of
\* allLedgers and changes no other creator's list; byCreator[C] is always a
\* subsequence of allLedgers; and no ledger operation, failed or not, changes
\* the registry.
C29_AppendOnly ==
    /\ [](\A c \in Addr : IsSubsequence(getDeployedTokens(c), getAllTokens))
    /\ [][/\ IsPrefix(allTokens, allTokens')
          /\ \A c \in Addr : IsPrefix(deployedTokens[c], deployedTokens'[c])
          /\ (last'.op \in CreateOps /\ last'.err = OK) =>
                /\ allTokens' = Append(allTokens, last'.ret[1])
                /\ \A c \in Addr :
                    deployedTokens'[c] = IF created'[c] # created[c]
                                         THEN Append(deployedTokens[c], last'.ret[1])
                                         ELSE deployedTokens[c]
          /\ last'.op \in LedgerOps =>
                UNCHANGED <<deployedTokens, allTokens, nonce, created>>]_vars

\* Creator 2 created the first ledger and creator 1 the second, and a mint on
\* the first ledger has succeeded since: the lists are as the creates left
\* them.
C29_Witness ==
    /\ getAllTokens = <<1, 2>>
    /\ getDeployedTokens(2) = <<1>> /\ getDeployedTokens(1) = <<2>>
    /\ last.op = "mint" /\ last.err = OK /\ last.address = 1
    /\ tokens[1].totalSupply = MaxUint /\ tokens[2].totalSupply = 0

\* ------------------------------------------------------ unchecked arithmetic
\* C30 (The unchecked arithmetic never wraps): in every reachable state every
\* balance is at most totalSupply, which is at most 2^W - 1, and a mint that
\* would carry totalSupply above 2^W - 1 fails; so wherever _transfer passes
\* its requires, fromBalance - amount and balances[to] + amount are within
\* 0 .. 2^W - 1, and wherever _spendAllowance passes its require,
\* currentAllowance - amount is: the unchecked results are the exact ones.
C30_NoWrap ==
    \A t \in DOMAIN tokens :
        LET tok == tokens[t] IN
        /\ tok.totalSupply \in 0..MaxUint
        /\ \A a \in Addr : tok.balances[a] \in 0..tok.totalSupply
        /\ \A sender \in Users, to \in Addr, amount \in Amounts :
            tok.totalSupply + amount > MaxUint =>
                mint(tok, sender, to, amount).err # OK
        /\ \A from \in Users, to \in Users, amount \in Amounts :
            LET fromBalance == balanceOf(tok, from)
                debited == [tok.balances EXCEPT ![from] = fromBalance - amount]
                moved == _transfer(tok, from, to, amount)
            IN moved.err = OK =>
                /\ fromBalance - amount = Wrap(fromBalance - amount)
                /\ debited[to] + amount = Wrap(debited[to] + amount)
                /\ moved.tok.balances = [debited EXCEPT ![to] = @ + amount]
        /\ \A owner \in Users, spender \in Users, amount \in Amounts :
            LET currentAllowance == allowance(tok, owner, spender)
                spent == _spendAllowance(tok, owner, spender, amount)
            IN (currentAllowance # MaxUint /\ spent.err = OK) =>
                /\ currentAllowance - amount = Wrap(currentAllowance - amount)
                /\ allowance(spent.tok, owner, spender) = currentAllowance - amount

\* A transferFrom has just spent an allowance of 1 in full and brought the
\* spender's balance to the largest value: 1 - 1 and (2^W - 2) + 1, both at
\* the edge of the range.
C30_Witness ==
    /\ last.op = "transferFrom" /\ last.err = OK
    /\ \E t \in DOMAIN tokens, o \in Users, s \in Users :
        /\ o # s /\ last.address = t
        /\ last.logs = EmittedBy(t, <<EvApproval(o, s, 0), EvTransfer(o, s, 1)>>)
        /\ balanceOf(tokens[t], s) = MaxUint /\ balanceOf(tokens[t], o) = 0
        /\ tokens[t].totalSupply = MaxUint

====
